---- MODULE Spec2Model ----
(***************************************************************************)
(* Model of the LRU response cache of the tiny proxy (src/cache.c,         *)
(* src/cache.h) and of the threads that call it (src/tinyproxy.c).         *)
(*                                                                         *)
(* The cache is a circular doubly-linked list of heap blocks reached from  *)
(* cache->start, guarded by one pthread mutex.  The heap is modelled as a  *)
(* function from addresses to block records, with next/prev pointers as    *)
(* in the source; every pointer assignment of the source is one EXCEPT.    *)
(* A thread's steps are the stretches of code between two operations on    *)
(* the mutex (and the busy-wait of block_free).                            *)
(*                                                                         *)
(* Specifications: Spec (threads calling the cache concurrently), SpecLRU  *)
(* (one caller), SpecServe (serve, from accept to close, with a second     *)
(* thread inserting), SpecHdr (write_header, byte by byte) and SpecFree    *)
(* (cache_free after one thread has filled the cache).                     *)
(***************************************************************************)
EXTENDS Integers, Sequences, FiniteSets

\* ------------------------------------------------------------------ bounds

\* Number of peer threads (tinyproxy.c creates one per accepted connection).
NumThreads == 2

\* Number of heap addresses malloc can hand out.
NumAddrs == 4

\* cache.h:27-28.  The source values are 1024*1024 and 100*1024; the model
\* keeps the order MAX_OBJECT_SIZE < MAX_CACHE_SIZE and scales both down so
\* that a handful of entries fills the cache.
MAX_CACHE_SIZE == 3
MAX_OBJECT_SIZE == 2

Threads == 1 .. NumThreads
Addrs == 1 .. NumAddrs
NULL == 0

\* Request URIs (keys).  Concurrent callers draw from Uris, the single
\* caller of SpecLRU from LruUris.
Uris == {"A", "B", "C"}
LruUris == {"A", "B", "C", "D"}
NoUri == "-"

\* The texts a caller may pass: for every length up to MAX_OBJECT_SIZE, two
\* byte sequences that differ in every byte.
Pattern(n, k) == [i \in 1 .. n |-> (i + k) % 2]
Texts == {Pattern(n, k) : n \in 0 .. MAX_OBJECT_SIZE, k \in {0, 1}}

\* ------------------------------------------------------------------- state

VARIABLES
    heap,    \* address -> struct cache_block (plus an allocated flag)
    cache,   \* struct cache_info: [size, start]
    mutex,   \* 0 when free, else the thread that holds it
    pc,      \* per thread: where it is in cache_gettext / cache_insert
    uri,     \* per thread: the uri argument of the running call
    text,    \* per thread: the text argument of cache_insert (text_len is its length)
    block,   \* per thread: the local `block` of cache_gettext / cache_insert
    rem,     \* per thread: the local `rem` of cache_remblock
    fdout,   \* per thread: the bytes rio_writen put on fd in this call
    wres,    \* per thread: "-" before the write, then "ok" or "err"
    seen,    \* history: the text the hit block held when the thread pinned it
    last,    \* history: the (uri, text) of the insert that added a block last,
             \* as long as nothing but lookups of that uri has started since
    sv,      \* per handler thread: the connection it serves (tinyproxy.c serve)
    wh,      \* a call of write_header: its arguments, locals and output
    cf       \* the call of cache_free: how far it got

vars == <<heap, cache, mutex, pc, uri, text, block, rem, fdout, wres, seen, last, sv, wh, cf>>

\* The variables of cache.c, and those of the code around it.
cvars == <<heap, cache, mutex, pc, uri, text, block, rem, fdout, wres, seen, last>>
svars == <<sv>>
ovars == <<wh, cf>>

\* A free (unallocated) heap cell.
FreeBlock ==
    [alloc |-> FALSE, text_len |-> 0, ref_cont |-> 0, next |-> NULL,
     prev |-> NULL, uri |-> NoUri, text |-> <<>>]

NoLast == [uri |-> NoUri, text |-> <<>>]

\* No call of write_header has been made.  headers is the parser's list of
\* header_t, next the position of its iterator, buf and buf_len the locals
\* of write_header, out the bytes rio_writen has put on fd_server, ret the
\* value returned.
NoCall ==
    [pc |-> "idle", headers |-> <<>>, next |-> 1, buf |-> "", buf_len |-> 0,
     out |-> "", ret |-> 0]

\* cache_free has not been called.  pc becomes "done" when the call has
\* returned, "block_free" when it spins in block_free(b), "uaf" when it has
\* read a block it had freed.
NotFreed == [pc |-> "none", b |-> NULL]

\* SpecServe follows the connections served by thread 1, one after the
\* other, in full.  Thread 2 stands for the handlers of other connections
\* that run at the same time, reduced to the cache_insert that ends their
\* serve, for the URIs of PeerUris.
Handler == 1
Peer == 2
PeerUris == {"A"}
Handlers == {Handler}

\* A thread slot that serves no connection.  pc is the position in serve;
\* uri is request->uri; resp and pos are the origin's response and how much
\* of it rio_readnb has handed out; input_len and cache_input are serve's
\* locals (writep is cache_input + Len(cache_input)); parser, fd_server and
\* connfd are the states of the three resources.  The other fields are
\* history: line is the parser's verdict on the request line, rderr says
\* that rio_readnb failed, cwrites lists the calls of rio_writen on connfd,
\* exit names the return taken, and the counters count calls.
NoServe ==
    [pc |-> "free", uri |-> NoUri, resp |-> <<>>, pos |-> 0, input_len |-> 0,
     cache_input |-> <<>>, parser |-> "none", fd_server |-> "none",
     connfd |-> "none", line |-> "-", rderr |-> FALSE, cwrites |-> <<>>,
     exit |-> "-", parser_frees |-> 0, closes |-> 0, connects |-> 0,
     lookups |-> 0, inserts |-> 0]

\* ------------------------------------------------------- cache.c helpers

\* malloc may return any free address, and nothing in cache.c depends on
\* which: the model fixes one choice per request.  The block allocated for a
\* key gets the cell numbered like the key when that cell is free, else the
\* lowest free cell, so that heaps differing only by a renaming of addresses
\* are not explored twice.
FreeAddrs(h) == {a \in Addrs : ~h[a].alloc}
KeyCell == [u \in LruUris |-> CASE u = "A" -> 1 [] u = "B" -> 2 [] u = "C" -> 3 [] OTHER -> 4]
malloc_w(h, u) ==
    IF KeyCell[u] \in FreeAddrs(h) THEN KeyCell[u]
    ELSE CHOOSE a \in FreeAddrs(h) : \A b \in FreeAddrs(h) : a <= b

\* block_empty: a block that points to itself.
block_empty(b) ==
    [alloc |-> TRUE, text_len |-> 0, ref_cont |-> 0, next |-> b, prev |-> b,
     uri |-> NoUri, text |-> <<>>]

\* Mutant of block_new: the memcpy of the text stops one byte short.
block_new_short(b, u, txt, text_len) ==
    [block_empty(b) EXCEPT !.text_len = text_len, !.uri = u,
                           !.text = SubSeq(txt, 1, text_len - 1)]

\* block_new: memcpy of the uri and of text_len bytes of text.
block_new(b, u, txt, text_len) ==
    [block_empty(b) EXCEPT !.text_len = text_len, !.uri = u,
                           !.text = SubSeq(txt, 1, text_len)]

\* cache_findblock: do { if match return curr; curr = curr->next } while (curr != start)
RECURSIVE find_from(_, _, _, _, _)
find_from(h, start, curr, u, fuel) ==
    IF h[curr].uri = u THEN curr
    ELSE IF h[curr].next = start \/ fuel = 0 THEN NULL
    ELSE find_from(h, start, h[curr].next, u, fuel - 1)

\* Mutant of cache_findblock: only the first block is compared.
cache_findblock_head(h, c, u) ==
    IF c.start = NULL THEN NULL
    ELSE IF h[c.start].uri = u THEN c.start ELSE NULL

cache_findblock(h, c, u) ==
    IF c.start = NULL THEN NULL
    ELSE find_from(h, c.start, c.start, u, NumAddrs)

\* Mutant of cache_addblock: the list's reference is not counted.
cache_addblock_uncounted(h, c, b) ==
    LET h1 == IF c.start = NULL THEN h
              ELSE [h EXCEPT ![b].next = c.start, ![b].prev = h[c.start].prev]
        h2 == IF c.start = NULL THEN h1
              ELSE [h1 EXCEPT ![h1[b].prev].next = b]
        h3 == IF c.start = NULL THEN h2
              ELSE [h2 EXCEPT ![h2[b].next].prev = b]
    IN  [heap  |-> h3,
         cache |-> [size |-> c.size + h3[b].text_len, start |-> b]]

\* cache_addblock: link block in front of start, count the list's reference,
\* add its length to the size.
cache_addblock(h, c, b) ==
    LET h1 == IF c.start = NULL THEN h
              ELSE [h EXCEPT ![b].next = c.start, ![b].prev = h[c.start].prev]
        h2 == IF c.start = NULL THEN h1
              ELSE [h1 EXCEPT ![h1[b].prev].next = b]
        h3 == IF c.start = NULL THEN h2
              ELSE [h2 EXCEPT ![h2[b].next].prev = b]
        h4 == [h3 EXCEPT ![b].ref_cont = @ + 1]
    IN  [heap  |-> h4,
         cache |-> [size |-> c.size + h4[b].text_len, start |-> b]]

\* Mutant of cache_remblock: the block at the front is unlinked.
cache_remblock_front(h, c) ==
    LET r        == c.start
        prev_new == h[r].prev
        next_new == h[r].next
        h1 == [h EXCEPT ![prev_new].next = next_new]
        h2 == [h1 EXCEPT ![next_new].prev = prev_new]
        h3 == [h2 EXCEPT ![r].ref_cont = @ - 1]
    IN  [heap  |-> h3,
         cache |-> [size  |-> c.size - h[r].text_len,
                    start |-> IF next_new = r THEN NULL ELSE next_new],
         rem   |-> r]

\* Mutant of cache_remblock: start->prev is left pointing at the block
\* removed.
cache_remblock_no_back(h, c) ==
    LET r        == h[c.start].prev
        prev_new == h[r].prev
        h1 == [h EXCEPT ![prev_new].next = c.start]
        h3 == [h1 EXCEPT ![r].ref_cont = @ - 1]
    IN  [heap  |-> h3,
         cache |-> [size  |-> c.size - h[r].text_len,
                    start |-> IF r = c.start THEN NULL ELSE c.start],
         rem   |-> r]

\* cache_remblock up to its call of block_free: unlink start->prev.
cache_remblock(h, c) ==
    LET r        == h[c.start].prev
        prev_new == h[r].prev
        h1 == [h EXCEPT ![prev_new].next = c.start]
        h2 == [h1 EXCEPT ![c.start].prev = prev_new]
        h3 == [h2 EXCEPT ![r].ref_cont = @ - 1]
    IN  [heap  |-> h3,
         cache |-> [size  |-> c.size - h[r].text_len,
                    start |-> IF r = c.start THEN NULL ELSE c.start],
         rem   |-> r]

\* Mutant of promote: the hit block is pinned where it is.
promote_in_place(h, c, b) ==
    [heap |-> [h EXCEPT ![b].ref_cont = @ + 1], cache |-> c]

\* Mutant of promote: the length cache_addblock added is not taken back.
promote_counted_twice(h, c, b) ==
    IF b = c.start
    THEN [heap |-> [h EXCEPT ![b].ref_cont = @ + 1], cache |-> c]
    ELSE LET h1 == [h EXCEPT ![h[b].next].prev = h[b].prev]
             h2 == [h1 EXCEPT ![h1[b].prev].next = h1[b].next]
         IN  cache_addblock(h2, c, b)

\* cache_gettext, lines 92-101: pin the hit block and move it to the front.
promote(h, c, b) ==
    IF b = c.start
    THEN [heap |-> [h EXCEPT ![b].ref_cont = @ + 1], cache |-> c]
    ELSE LET h1 == [h EXCEPT ![h[b].next].prev = h[b].prev]
             h2 == [h1 EXCEPT ![h1[b].prev].next = h1[b].next]
             r  == cache_addblock(h2, c, b)
         IN  [heap  |-> r.heap,
              cache |-> [r.cache EXCEPT !.size = @ - r.heap[b].text_len]]

\* Mutant of needs_room: the length of the new text is left out.
needs_room_ignoring_len(c, text_len) == c.size > MAX_CACHE_SIZE

\* cache_insert, line 129: the loop condition.
needs_room(c, text_len) == c.size + text_len > MAX_CACHE_SIZE

\* ----------------------------------------------------------- derived views

\* The blocks of the list, from start along next (most recently used first).
RECURSIVE walk(_, _, _, _)
walk(h, start, curr, fuel) ==
    IF fuel = 0 THEN <<>>
    ELSE IF h[curr].next = start \/ h[curr].next = NULL THEN <<curr>>
    ELSE <<curr>> \o walk(h, start, h[curr].next, fuel - 1)

Order == IF cache.start = NULL THEN <<>>
         ELSE walk(heap, cache.start, cache.start, NumAddrs)

UriOrder == [i \in 1 .. Len(Order) |-> heap[Order[i]].uri]

InList(b) == \E i \in 1 .. Len(Order) : Order[i] = b

RECURSIVE SumLen(_)
SumLen(s) == IF s = <<>> THEN 0 ELSE heap[Head(s)].text_len + SumLen(Tail(s))

\* The threads between their hit and their release of block b.
Pinners(b) == {t \in Threads : pc[t] \in {"gt_write", "gt_unpin"} /\ block[t] = b}

\* ------------------------------------------------------------------ Init

Init ==
    /\ heap = [a \in Addrs |-> FreeBlock]
    /\ cache = [size |-> 0, start |-> NULL]
    /\ mutex = 0
    /\ pc = [t \in Threads |-> "idle"]
    /\ uri = [t \in Threads |-> NoUri]
    /\ text = [t \in Threads |-> <<>>]
    /\ block = [t \in Threads |-> NULL]
    /\ rem = [t \in Threads |-> NULL]
    /\ fdout = [t \in Threads |-> <<>>]
    /\ wres = [t \in Threads |-> "-"]
    /\ seen = [t \in Threads |-> <<>>]
    /\ last = NoLast
    /\ sv = [t \in Handlers |-> NoServe]
    /\ wh = NoCall
    /\ cf = NotFreed

\* ------------------------------------------------------- cache_gettext

\* lines 85-86: lock, find.
GetLock(t, u) ==
    /\ pc[t] = "idle" /\ mutex = 0
    /\ mutex' = t
    /\ uri' = [uri EXCEPT ![t] = u]
    /\ LET b == cache_findblock(heap, cache, u)
       IN  /\ block' = [block EXCEPT ![t] = b]
           /\ pc' = [pc EXCEPT ![t] = IF b = NULL THEN "gt_miss" ELSE "gt_hit"]
           /\ seen' = [seen EXCEPT ![t] = IF b = NULL THEN <<>> ELSE heap[b].text]
    /\ last' = IF last.uri = u THEN last ELSE NoLast
    /\ UNCHANGED <<heap, cache, text, rem, fdout, wres>>

\* lines 88-90: not found; unlock and return false.
GetMiss(t) ==
    /\ pc[t] = "gt_miss" /\ mutex = t
    /\ mutex' = 0
    /\ pc' = [pc EXCEPT ![t] = "idle"]
    /\ uri' = [uri EXCEPT ![t] = NoUri]
    /\ UNCHANGED <<heap, cache, text, block, rem, fdout, wres, seen, last>>

\* lines 92-103: pin and promote, unlock.
GetHit(t) ==
    /\ pc[t] = "gt_hit" /\ mutex = t
    /\ LET r == promote(heap, cache, block[t])
       IN  heap' = r.heap /\ cache' = r.cache
    /\ mutex' = 0
    /\ pc' = [pc EXCEPT ![t] = "gt_write"]
    /\ UNCHANGED <<uri, text, block, rem, fdout, wres, seen, last>>

\* What rio_writen(fd, block->text, block->text_len) leaves on fd: all of it
\* when it succeeds, a proper prefix when it fails.
Written(b, ok) ==
    IF ok THEN {SubSeq(heap[b].text, 1, heap[b].text_len)}
    ELSE {SubSeq(heap[b].text, 1, n) : n \in 0 .. heap[b].text_len - 1}

\* Mutant of GetWrite: a failed write returns at once, without the release.
GetWriteBail(t, ok) ==
    /\ pc[t] = "gt_write"
    /\ \E w \in Written(block[t], ok) : fdout' = [fdout EXCEPT ![t] = IF ok THEN w ELSE <<>>]
    /\ wres' = [wres EXCEPT ![t] = IF ok THEN "ok" ELSE "-"]
    /\ pc' = [pc EXCEPT ![t] = IF ok THEN "gt_unpin" ELSE "idle"]
    /\ uri' = [uri EXCEPT ![t] = IF ok THEN @ ELSE NoUri]
    /\ block' = [block EXCEPT ![t] = IF ok THEN @ ELSE NULL]
    /\ seen' = [seen EXCEPT ![t] = IF ok THEN @ ELSE <<>>]
    /\ UNCHANGED <<heap, cache, mutex, text, rem, last>>

\* line 104: the write, outside the mutex; its result is ignored.
GetWrite(t, ok) ==
    /\ pc[t] = "gt_write"
    /\ \E w \in Written(block[t], ok) : fdout' = [fdout EXCEPT ![t] = w]
    /\ wres' = [wres EXCEPT ![t] = IF ok THEN "ok" ELSE "err"]
    /\ pc' = [pc EXCEPT ![t] = "gt_unpin"]
    /\ UNCHANGED <<heap, cache, mutex, uri, text, block, rem, seen, last>>

\* lines 107-110: lock, drop the reference, unlock, return true.
GetUnpin(t) ==
    /\ pc[t] = "gt_unpin" /\ mutex = 0
    /\ heap' = [heap EXCEPT ![block[t]].ref_cont = @ - 1]
    /\ pc' = [pc EXCEPT ![t] = "idle"]
    /\ uri' = [uri EXCEPT ![t] = NoUri]
    /\ block' = [block EXCEPT ![t] = NULL]
    /\ fdout' = [fdout EXCEPT ![t] = <<>>]
    /\ wres' = [wres EXCEPT ![t] = "-"]
    /\ seen' = [seen EXCEPT ![t] = <<>>]
    /\ last' = NoLast
    /\ UNCHANGED <<cache, mutex, text, rem>>

\* -------------------------------------------------------- cache_insert

\* lines 124-127: lock, find.
InsertLock(t, u, txt) ==
    /\ pc[t] = "idle" /\ mutex = 0
    /\ mutex' = t
    /\ uri' = [uri EXCEPT ![t] = u]
    /\ text' = [text EXCEPT ![t] = txt]
    /\ LET b == cache_findblock(heap, cache, u)
       IN  /\ block' = [block EXCEPT ![t] = b]
           /\ pc' = [pc EXCEPT ![t] = IF b = NULL THEN "ins_room" ELSE "ins_dup"]
    /\ last' = NoLast
    /\ UNCHANGED <<heap, cache, rem, fdout, wres, seen>>

\* Mutant of InsertDup: the stored text is replaced by the new one.
InsertDupOverwrite(t) ==
    /\ pc[t] = "ins_dup" /\ mutex = t
    /\ heap' = [heap EXCEPT ![block[t]].text = text[t],
                            ![block[t]].text_len = Len(text[t])]
    /\ cache' = [cache EXCEPT !.size = @ - heap[block[t]].text_len + Len(text[t])]
    /\ mutex' = 0
    /\ pc' = [pc EXCEPT ![t] = "idle"]
    /\ uri' = [uri EXCEPT ![t] = NoUri]
    /\ text' = [text EXCEPT ![t] = <<>>]
    /\ block' = [block EXCEPT ![t] = NULL]
    /\ UNCHANGED <<rem, fdout, wres, seen, last>>

\* lines 127, 135: a matching block exists; do nothing, unlock.
InsertDup(t) ==
    /\ pc[t] = "ins_dup" /\ mutex = t
    /\ mutex' = 0
    /\ pc' = [pc EXCEPT ![t] = "idle"]
    /\ uri' = [uri EXCEPT ![t] = NoUri]
    /\ text' = [text EXCEPT ![t] = <<>>]
    /\ block' = [block EXCEPT ![t] = NULL]
    /\ UNCHANGED <<heap, cache, rem, fdout, wres, seen, last>>

\* lines 129-130 and cache_remblock 265-275: the block does not fit; unlink
\* the tail and drop the list's reference, then enter block_free.  (With an
\* empty list the code would read through NULL; no text of length up to
\* MAX_OBJECT_SIZE needs room in an empty cache.)
InsertEvict(t) ==
    /\ pc[t] = "ins_room" /\ mutex = t
    /\ needs_room(cache, Len(text[t]))
    /\ cache.start # NULL
    /\ LET r == cache_remblock(heap, cache)
       IN  /\ heap' = r.heap
           /\ cache' = r.cache
           /\ rem' = [rem EXCEPT ![t] = r.rem]
    /\ pc' = [pc EXCEPT ![t] = "block_free"]
    /\ UNCHANGED <<mutex, uri, text, block, fdout, wres, seen, last>>

\* Mutant of can_free: block_free does not wait.
can_free_at_once(h, b) == TRUE

\* block_free 163-170: leaves the loop only when ref_cont is 0; until then
\* the thread spins (no step), still holding the mutex.
can_free(h, b) == h[b].ref_cont = 0

BlockFree(t) ==
    /\ pc[t] = "block_free" /\ mutex = t
    /\ can_free(heap, rem[t])
    /\ heap' = [heap EXCEPT ![rem[t]] = FreeBlock]
    /\ rem' = [rem EXCEPT ![t] = NULL]
    /\ pc' = [pc EXCEPT ![t] = "ins_room"]
    /\ UNCHANGED <<cache, mutex, uri, text, block, fdout, wres, seen, last>>

\* lines 132-135: the block fits; block_new, cache_addblock, unlock.
\* malloc_w ends the process when no memory is left (no step).
InsertAdd(t) ==
    /\ pc[t] = "ins_room" /\ mutex = t
    /\ ~needs_room(cache, Len(text[t]))
    /\ FreeAddrs(heap) # {}
    /\ LET b == malloc_w(heap, uri[t])
           h == [heap EXCEPT ![b] = block_new(b, uri[t], text[t], Len(text[t]))]
           r == cache_addblock(h, cache, b)
       IN  heap' = r.heap /\ cache' = r.cache
    /\ last' = [uri |-> uri[t], text |-> text[t]]
    /\ mutex' = 0
    /\ pc' = [pc EXCEPT ![t] = "idle"]
    /\ uri' = [uri EXCEPT ![t] = NoUri]
    /\ text' = [text EXCEPT ![t] = <<>>]
    /\ block' = [block EXCEPT ![t] = NULL]
    /\ UNCHANGED <<rem, fdout, wres, seen>>

\* ------------------------------------------------------------------ Next

Next ==
    \E t \in Threads :
        \/ \E u \in Uris : GetLock(t, u) /\ UNCHANGED <<svars, ovars>>
        \/ GetMiss(t) /\ UNCHANGED <<svars, ovars>>
        \/ GetHit(t) /\ UNCHANGED <<svars, ovars>>
        \/ \E ok \in BOOLEAN : GetWrite(t, ok) /\ UNCHANGED <<svars, ovars>>
        \/ GetUnpin(t) /\ UNCHANGED <<svars, ovars>>
        \/ \E u \in Uris, txt \in Texts : InsertLock(t, u, txt) /\ UNCHANGED <<svars, ovars>>
        \/ InsertDup(t) /\ UNCHANGED <<svars, ovars>>
        \/ InsertEvict(t) /\ UNCHANGED <<svars, ovars>>
        \/ BlockFree(t) /\ UNCHANGED <<svars, ovars>>
        \/ InsertAdd(t) /\ UNCHANGED <<svars, ovars>>

Spec == Init /\ [][Next]_vars

\* One caller alone (thread 1), over four URIs: the sequential behaviour of
\* the cache interface.
NextLRU ==
    \/ \E u \in LruUris : GetLock(1, u) /\ UNCHANGED <<svars, ovars>>
    \/ GetMiss(1) /\ UNCHANGED <<svars, ovars>>
    \/ GetHit(1) /\ UNCHANGED <<svars, ovars>>
    \/ \E ok \in BOOLEAN : GetWrite(1, ok) /\ UNCHANGED <<svars, ovars>>
    \/ GetUnpin(1) /\ UNCHANGED <<svars, ovars>>
    \/ \E u \in LruUris, txt \in Texts : InsertLock(1, u, txt) /\ UNCHANGED <<svars, ovars>>
    \/ InsertDup(1) /\ UNCHANGED <<svars, ovars>>
    \/ InsertEvict(1) /\ UNCHANGED <<svars, ovars>>
    \/ BlockFree(1) /\ UNCHANGED <<svars, ovars>>
    \/ InsertAdd(1) /\ UNCHANGED <<svars, ovars>>

SpecLRU == Init /\ [][NextLRU]_vars

\* ------------------------------------------------- tinyproxy.c: serve

\* csapp.h's MAXLINE, the most rio_readnb hands out in one call, scaled like
\* the cache sizes: an object of MAX_OBJECT_SIZE bytes takes several reads.
MAXLINE == 1

\* The responses an origin may send: one byte sequence for every length up
\* to one more than MAX_OBJECT_SIZE.
Responses == {Pattern(n, 0) : n \in 0 .. MAX_OBJECT_SIZE + 1}

\* The verdicts of parser_parse_line on a line.
ParserStates == {"REQUEST", "HEADER", "ERROR"}


\* One call rio_writen(connfd, ...) as recorded in cwrites.
Wr(what, data, ok) == [what |-> what, data |-> data, ok |-> ok]

\* The bytes of the response that reached the client: the data of the
\* writes that succeeded.
RECURSIVE Delivered(_)
Delivered(w) ==
    IF w = <<>> THEN <<>>
    ELSE (IF Head(w).ok /\ Head(w).what \in {"chunk", "text"}
          THEN Head(w).data ELSE <<>>) \o Delivered(Tail(w))

\* clienterror 400-439: write the headers; return if that failed; write the
\* body.  ce counts the writes that succeed.
clienterror(w, errnum, shortmsg, ce) ==
    IF ce = 0 THEN Append(w, Wr("error_headers", <<errnum, shortmsg>>, FALSE))
    ELSE w \o <<Wr("error_headers", <<errnum, shortmsg>>, TRUE),
                Wr("error_body", <<errnum, shortmsg>>, ce >= 2)>>

\* parser_free(parser).
parser_free(s) == [s EXCEPT !.parser = "freed", !.parser_frees = @ + 1]

\* close(fd_server).  With fd_server negative (line 213) close fails with
\* EBADF and closes nothing.
close_server(s) ==
    IF s.fd_server = "open"
    THEN [s EXCEPT !.fd_server = "closed", !.closes = @ + 1]
    ELSE s

\* serve returns and thread (line 172) closes the client socket.
serve_return(s, exit) ==
    [s EXCEPT !.pc = "done", !.exit = exit, !.connfd = "closed"]

\* Mutant of parse_request: a line that is no request line is accepted.
parse_request_lax(s, rd, state, hdrs, u, ce) ==
    IF ~rd THEN [ret |-> -1, s |-> s]
    ELSE IF ~hdrs THEN [ret |-> -1, s |-> [s EXCEPT !.line = state, !.uri = u]]
    ELSE [ret |-> 0, s |-> [s EXCEPT !.line = state, !.uri = u]]

\* parse_request 291-329.  rd: the request line was read; state: the
\* parser's verdict on it; hdrs: the header lines up to the blank line were
\* read; u: the URI the parser retrieved.
parse_request(s, rd, state, hdrs, u, ce) ==
    IF ~rd THEN [ret |-> -1, s |-> s]
    ELSE IF state # "REQUEST"
    THEN [ret |-> -1,
          s |-> [s EXCEPT !.line = state,
                          !.cwrites = clienterror(@, "400", "Bad Request", ce)]]
    ELSE IF ~hdrs THEN [ret |-> -1, s |-> [s EXCEPT !.line = state, !.uri = u]]
    ELSE [ret |-> 0, s |-> [s EXCEPT !.line = state, !.uri = u]]

\* Mutant of fits: every chunk is copied.
fits_always(input_len) == TRUE

\* line 248: the chunk is copied when the total stays below MAX_OBJECT_SIZE.
fits(input_len) == input_len < MAX_OBJECT_SIZE

\* line 254: the response is handed to cache_insert.
cacheable(input_len) == input_len < MAX_OBJECT_SIZE

\* lines 247-251: input_len += buf_len; memcpy at writep when it fits.
relay_copy(s, buf) ==
    LET n == s.input_len + Len(buf)
    IN  [s EXCEPT !.input_len = n,
                  !.cache_input = IF fits(n) THEN @ \o buf ELSE @]

\* main 135-144, thread 157-170, serve 189-192: a connection is accepted, a
\* thread created for it, and the thread makes a parser.
ServeAccept(t) ==
    /\ sv[t].pc \in {"free", "done"} /\ pc[t] = "idle"
    /\ sv' = [sv EXCEPT ![t] = [NoServe EXCEPT !.pc = "parse", !.parser = "live",
                                               !.connfd = "open"]]
    /\ UNCHANGED cvars

\* serve 198-201: parse_request; on failure parser_free and return.
ServeParse(t, rd, state, hdrs, u, ce) ==
    /\ sv[t].pc = "parse"
    /\ LET r == parse_request(sv[t], rd, state, hdrs, u, ce)
       IN  sv' = [sv EXCEPT ![t] =
                     IF r.ret < 0 THEN serve_return(parser_free(r.s), "parse_err")
                     ELSE [r.s EXCEPT !.pc = "probe"]]
    /\ UNCHANGED cvars

\* serve 204: cache_gettext(request->uri, client->connfd) begins.
ServeProbe(t) ==
    /\ sv[t].pc = "probe"
    /\ GetLock(t, sv[t].uri)
    /\ sv' = [sv EXCEPT ![t].pc = "gettext", ![t].lookups = @ + 1]

\* cache_gettext returns false: serve goes on to the origin.
ServeGetMiss(t) ==
    /\ sv[t].pc = "gettext"
    /\ GetMiss(t)
    /\ sv' = [sv EXCEPT ![t].pc = "connect"]

ServeGetHit(t) ==
    /\ sv[t].pc = "gettext"
    /\ GetHit(t)
    /\ UNCHANGED <<svars, ovars>>

\* cache.c:104: the cached text is written on the client socket.
ServeGetWrite(t, ok) ==
    /\ sv[t].pc = "gettext"
    /\ GetWrite(t, ok)
    /\ sv' = [sv EXCEPT ![t].cwrites = Append(@, Wr("text", fdout'[t], ok))]

\* cache_gettext returns true; serve 205-206: parser_free and return.
ServeGetUnpin(t) ==
    /\ sv[t].pc = "gettext"
    /\ GetUnpin(t)
    /\ sv' = [sv EXCEPT ![t] = serve_return(parser_free(@), "hit")]

\* serve 210-216: open_clientfd; on failure close(fd_server), parser_free,
\* return.  On success the origin's response is fixed.
ServeConnect(t, ok, r) ==
    /\ sv[t].pc = "connect"
    /\ sv' = [sv EXCEPT ![t] =
                 IF ok
                 THEN [@ EXCEPT !.pc = "header", !.fd_server = "open",
                                !.connects = @ + 1, !.resp = r]
                 ELSE serve_return(
                          parser_free(close_server([@ EXCEPT !.connects = @ + 1])),
                          "connect_err")]
    /\ UNCHANGED cvars

\* serve 219-223: write_header; on failure close(fd_server), parser_free,
\* return.
ServeHeader(t, ok) ==
    /\ sv[t].pc = "header"
    /\ sv' = [sv EXCEPT ![t] =
                 IF ok THEN [@ EXCEPT !.pc = "relay"]
                 ELSE serve_return(parser_free(close_server(@)), "header_err")]
    /\ UNCHANGED cvars

\* serve 241-258: one turn of the relay loop.  rio_readnb hands out the next
\* MAXLINE bytes (fewer at the end of the response), 0 at its end, or -1
\* (rd false) on an I/O error.  A chunk is written to the client (wr: the
\* write succeeded) and accumulated; a failed write calls clienterror and
\* returns.  The loop ends on a result <= 0: cache_insert follows when
\* input_len < MAX_OBJECT_SIZE, else close(fd_server), parser_free, return.
ServeRelay(t, rd, wr, ce) ==
    /\ sv[t].pc = "relay"
    /\ LET s == sv[t]
           left == Len(s.resp) - s.pos
           buf_len == IF ~rd THEN -1 ELSE IF left < MAXLINE THEN left ELSE MAXLINE
           buf == SubSeq(s.resp, s.pos + 1, s.pos + buf_len)
       IN  sv' = [sv EXCEPT ![t] =
                     IF buf_len > 0
                     THEN IF wr
                          THEN [relay_copy(s, buf) EXCEPT
                                    !.pos = @ + buf_len,
                                    !.cwrites = Append(@, Wr("chunk", buf, TRUE))]
                          ELSE serve_return(
                                   [s EXCEPT !.pos = @ + buf_len,
                                             !.cwrites = clienterror(
                                                 Append(@, Wr("chunk", buf, FALSE)),
                                                 "400", "Write error", ce)],
                                   "write_err")
                     ELSE IF cacheable(s.input_len)
                          THEN [s EXCEPT !.pc = "insert", !.rderr = ~rd]
                          ELSE serve_return(
                                   parser_free(close_server([s EXCEPT !.rderr = ~rd])),
                                   "relayed")]
    /\ UNCHANGED cvars

\* serve 255: cache_insert(request->uri, cache_input, input_len) begins.
ServeInsert(t) ==
    /\ sv[t].pc = "insert"
    /\ InsertLock(t, sv[t].uri, SubSeq(sv[t].cache_input, 1, sv[t].input_len))
    /\ sv' = [sv EXCEPT ![t].pc = "inserting", ![t].inserts = @ + 1]

ServeInsertEvict(t) ==
    /\ sv[t].pc = "inserting"
    /\ InsertEvict(t)
    /\ UNCHANGED <<svars, ovars>>

ServeBlockFree(t) ==
    /\ sv[t].pc = "inserting"
    /\ BlockFree(t)
    /\ UNCHANGED <<svars, ovars>>

\* cache_insert returns; serve 257-259: close(fd_server), parser_free, return.
ServeInsertDup(t) ==
    /\ sv[t].pc = "inserting"
    /\ InsertDup(t)
    /\ sv' = [sv EXCEPT ![t] = serve_return(parser_free(close_server(@)), "relayed")]

ServeInsertAdd(t) ==
    /\ sv[t].pc = "inserting"
    /\ InsertAdd(t)
    /\ sv' = [sv EXCEPT ![t] = serve_return(parser_free(close_server(@)), "relayed")]

\* What a handler may pass to cache_insert: the bytes accumulated from a
\* response, as long as line 254 lets them through.
PeerTexts ==
    {w \in UNION {{SubSeq(r, 1, n) : n \in 0 .. Len(r)} : r \in Responses} :
        cacheable(Len(w))}

\* The proxy serving connections for four URIs.
NextServe ==
    \/ \E u \in PeerUris, txt \in PeerTexts :
           InsertLock(Peer, u, txt) /\ UNCHANGED <<svars, ovars>>
    \/ InsertDup(Peer) /\ UNCHANGED <<svars, ovars>>
    \/ InsertEvict(Peer) /\ UNCHANGED <<svars, ovars>>
    \/ BlockFree(Peer) /\ UNCHANGED <<svars, ovars>>
    \/ InsertAdd(Peer) /\ UNCHANGED <<svars, ovars>>
    \/ \E t \in Handlers :
        \/ ServeAccept(t) /\ UNCHANGED ovars
        \/ \E rd \in BOOLEAN, state \in ParserStates, hdrs \in BOOLEAN,
              u \in LruUris, ce \in 0 .. 2 : ServeParse(t, rd, state, hdrs, u, ce) /\ UNCHANGED ovars
        \/ ServeProbe(t) /\ UNCHANGED ovars
        \/ ServeGetMiss(t) /\ UNCHANGED ovars
        \/ ServeGetHit(t) /\ UNCHANGED ovars
        \/ \E ok \in BOOLEAN : ServeGetWrite(t, ok) /\ UNCHANGED ovars
        \/ ServeGetUnpin(t) /\ UNCHANGED ovars
        \/ \E ok \in BOOLEAN, r \in Responses : ServeConnect(t, ok, r) /\ UNCHANGED ovars
        \/ \E ok \in BOOLEAN : ServeHeader(t, ok) /\ UNCHANGED ovars
        \/ \E rd \in BOOLEAN, wr \in BOOLEAN, ce \in 0 .. 2 : ServeRelay(t, rd, wr, ce) /\ UNCHANGED ovars
        \/ ServeInsert(t) /\ UNCHANGED ovars
        \/ ServeInsertEvict(t) /\ UNCHANGED ovars
        \/ ServeBlockFree(t) /\ UNCHANGED ovars
        \/ ServeInsertDup(t) /\ UNCHANGED ovars
        \/ ServeInsertAdd(t) /\ UNCHANGED ovars

SpecServe == Init /\ [][NextServe]_vars

\* ------------------------------------------- tinyproxy.c: write_header

\* Most headers a request carries.
MaxHeaders == 3

\* tinyproxy.c:59-61.
header_user_agent ==
    "Mozilla/5.0 (X11; Linux x86_64; rv:3.10.0) Gecko/20230411 Firefox/63.0.1"

\* Stands for the byte 0 that sprintf puts after the text it writes.
NUL == "\f"

\* The request line's fields, as parse_request stored them in *request.
request == [method |-> "GET", path |-> "/p", host |-> "h.org", port |-> "80"]

\* The header lines a client may send: the four names write_header treats
\* apart, one in another case, and one other name.
Headers ==
    {[name |-> "Host", value |-> v] : v \in {"a", "bb"}} \cup
    {[name |-> "Accept", value |-> v] : v \in {"a", "bb"}} \cup
    {[name |-> n, value |-> "x"] :
        n \in {"User-Agent", "Connection", "Proxy-Connection", "host"}}
HeaderLists == UNION {[1 .. n -> Headers] : n \in 0 .. MaxHeaders}

\* parser_lookup_header(parser, name): the position of the first header of
\* that name, 0 (NULL) when there is none.
parser_lookup_header(hs, name) ==
    IF \E i \in 1 .. Len(hs) : hs[i].name = name
    THEN CHOOSE i \in 1 .. Len(hs) :
             /\ hs[i].name = name
             /\ \A j \in 1 .. i - 1 : hs[j].name # name
    ELSE 0

\* sprintf(buf, ...) with result str: the text, a byte 0, and what buf held
\* behind them.
sprintf(buf, str) == str \o NUL \o SubSeq(buf, Len(str) + 2, Len(buf))

\* rio_writen(fd_server, buf, n): n bytes of buf go out.
rio_writen(out, buf, n) == out \o SubSeq(buf, 1, n)

\* Mutant of pass_through: only Host is held back.
pass_through_but_host(name) == name # "Host"

\* lines 376-381: the four strcmp.
pass_through(name) ==
    /\ name # "Host" /\ name # "User-Agent"
    /\ name # "Connection" /\ name # "Proxy-Connection"

\* serve 219: write_header is called with the parser's headers.
WhCall(hs) ==
    /\ wh.pc = "idle"
    /\ wh' = [NoCall EXCEPT !.pc = "request_line", !.headers = hs]

\* One sprintf into buf followed by rio_writen of buf_len bytes; a failed
\* write makes write_header return -1.
WhWrite(str, ok, pcnext) ==
    LET b == sprintf(wh.buf, str)
    IN  wh' = [wh EXCEPT !.buf = b, !.buf_len = Len(str),
                         !.out = IF ok THEN rio_writen(@, b, Len(str)) ELSE @,
                         !.ret = IF ok THEN @ ELSE -1,
                         !.pc = IF ok THEN pcnext ELSE "done"]

\* lines 346-350: the request line.
WhRequestLine(ok) ==
    /\ wh.pc = "request_line"
    /\ WhWrite(request.method \o " " \o request.path \o " HTTP/1.0\r\n", ok, "host")

\* lines 353-367: Host (the client's, or host:port), User-Agent,
\* Connection and Proxy-Connection in one write.
WhHost(ok) ==
    /\ wh.pc = "host"
    /\ LET line == parser_lookup_header(wh.headers, "Host")
           connection == "Connection: close\r\n"
           proxy_conn == "Proxy-Connection: close\r\n"
       IN  WhWrite(
               IF line = 0
               THEN "Host: " \o request.host \o ":" \o request.port \o "\r\n"
                    \o "User-Agent: " \o header_user_agent \o "\r\n"
                    \o connection \o proxy_conn
               ELSE "Host: " \o wh.headers[line].value \o "\r\n"
                    \o "User-Agent: " \o header_user_agent \o "\r\n"
                    \o connection \o proxy_conn,
               ok, "headers")

\* lines 370-383: parser_retrieve_next_header hands out the next header; it
\* is written unless it bears one of the four names.
WhNext(ok) ==
    /\ wh.pc = "headers" /\ wh.next <= Len(wh.headers)
    /\ LET line == wh.headers[wh.next]
       IN  IF pass_through(line.name)
           THEN /\ ok \in BOOLEAN
                /\ LET b == sprintf(wh.buf, line.name \o ": " \o line.value \o "\r\n")
                       n == Len(line.name \o ": " \o line.value \o "\r\n")
                   IN  wh' = [wh EXCEPT !.buf = b, !.buf_len = n,
                                        !.next = @ + 1,
                                        !.out = IF ok THEN rio_writen(@, b, n) ELSE @,
                                        !.ret = IF ok THEN @ ELSE -1,
                                        !.pc = IF ok THEN @ ELSE "done"]
           ELSE /\ ok
                /\ wh' = [wh EXCEPT !.next = @ + 1]

\* lines 384-390: the iterator is exhausted; sprintf(buf, "\r\n") and
\* rio_writen of buf_len bytes, buf_len being that of the write before.
WhLast(ok) ==
    /\ wh.pc = "headers" /\ wh.next > Len(wh.headers)
    /\ LET b == sprintf(wh.buf, "\r\n")
       IN  wh' = [wh EXCEPT !.buf = b,
                            !.out = IF ok THEN rio_writen(@, b, wh.buf_len) ELSE @,
                            !.ret = IF ok THEN 0 ELSE -1,
                            !.pc = "done"]

\* Calls of write_header for every list of headers.
NextHdr ==
    \/ \E hs \in HeaderLists : WhCall(hs) /\ UNCHANGED <<cvars, sv, cf>>
    \/ \E ok \in BOOLEAN : WhRequestLine(ok) /\ UNCHANGED <<cvars, sv, cf>>
    \/ \E ok \in BOOLEAN : WhHost(ok) /\ UNCHANGED <<cvars, sv, cf>>
    \/ \E ok \in BOOLEAN : WhNext(ok) /\ UNCHANGED <<cvars, sv, cf>>
    \/ \E ok \in BOOLEAN : WhLast(ok) /\ UNCHANGED <<cvars, sv, cf>>

SpecHdr == Init /\ [][NextHdr]_vars

\* ------------------------------------------------- cache.c: cache_free

\* cache_free 143-148 from the top of the do-loop's body, curr being the
\* value of `curr` there.  block_free(b) returns only when b->ref_cont is 0;
\* otherwise the call spins in it for ever (pc "block_free").  A read of a
\* block already freed is undefined behaviour (pc "uaf").
RECURSIVE free_loop(_, _, _, _)
free_loop(h, start, curr, fuel) ==
    IF ~h[curr].alloc \/ fuel = 0 THEN [heap |-> h, pc |-> "uaf", b |-> curr]
    ELSE LET nxt == h[curr].next
         IN  IF ~h[nxt].alloc THEN [heap |-> h, pc |-> "uaf", b |-> nxt]
             ELSE LET b == h[nxt].prev
                  IN  IF ~h[b].alloc THEN [heap |-> h, pc |-> "uaf", b |-> b]
                      ELSE IF ~can_free(h, b)
                      THEN [heap |-> h, pc |-> "block_free", b |-> b]
                      ELSE IF nxt = start
                      THEN [heap |-> [h EXCEPT ![b] = FreeBlock],
                            pc |-> "done", b |-> NULL]
                      ELSE free_loop([h EXCEPT ![b] = FreeBlock], start, nxt,
                                     fuel - 1)

\* cache_free 141-150.
cache_free(h, c) ==
    IF c.start # NULL THEN free_loop(h, c.start, c.start, NumAddrs + 1)
    ELSE [heap |-> h, pc |-> "done", b |-> NULL]

\* main calls cache_free when no thread is inside the cache.  The action is
\* the whole call, as far as it gets.
CacheFree ==
    /\ cf.pc = "none"
    /\ mutex = 0 /\ \A t \in Threads : pc[t] = "idle"
    /\ LET r == cache_free(heap, cache)
       IN  /\ heap' = r.heap
           /\ cf' = [pc |-> r.pc, b |-> r.b]
    /\ UNCHANGED <<cache, mutex, pc, uri, text, block, rem, fdout, wres, seen,
                   last, sv, wh>>

\* One thread fills the cache as in SpecLRU, over three URIs; then
\* cache_free is called.
NextFree ==
    \/ cf.pc = "none" /\ \E u \in Uris : GetLock(1, u) /\ UNCHANGED <<svars, ovars>>
    \/ cf.pc = "none" /\ GetMiss(1) /\ UNCHANGED <<svars, ovars>>
    \/ cf.pc = "none" /\ GetHit(1) /\ UNCHANGED <<svars, ovars>>
    \/ cf.pc = "none" /\ \E ok \in BOOLEAN : GetWrite(1, ok) /\ UNCHANGED <<svars, ovars>>
    \/ cf.pc = "none" /\ GetUnpin(1) /\ UNCHANGED <<svars, ovars>>
    \/ cf.pc = "none" /\ \E u \in Uris, txt \in Texts :
                            InsertLock(1, u, txt) /\ UNCHANGED <<svars, ovars>>
    \/ cf.pc = "none" /\ InsertDup(1) /\ UNCHANGED <<svars, ovars>>
    \/ cf.pc = "none" /\ InsertEvict(1) /\ UNCHANGED <<svars, ovars>>
    \/ cf.pc = "none" /\ BlockFree(1) /\ UNCHANGED <<svars, ovars>>
    \/ cf.pc = "none" /\ InsertAdd(1) /\ UNCHANGED <<svars, ovars>>
    \/ CacheFree

SpecFree == Init /\ [][NextFree]_vars

TypeOK ==
    /\ mutex \in 0 .. NumThreads
    /\ cache.start \in Addrs \cup {NULL}
    /\ \A t \in Threads : block[t] \in Addrs \cup {NULL}

\* ------------------------------------------------------------------ claims

\* The threads that are inside cache_gettext after a hit.
Reading(t) == pc[t] \in {"gt_write", "gt_unpin"}

\* C1: no thread holds the cache mutex while it waits, in block_free, for a
\* reference count that only threads needing that mutex can decrement.
C1_NoSpinUnderMutex ==
    \A t \in Threads :
        ~(pc[t] = "block_free" /\ mutex = t /\ heap[rem[t]].ref_cont > 0
          /\ Pinners(rem[t]) # {})

\* C2: a block some reader is streaming is still allocated and holds the
\* uri, the bytes and the length it held when the reader pinned it.
C2_PinnedBlockLives ==
    \A t \in Threads :
        Reading(t) =>
            /\ heap[block[t]].alloc
            /\ heap[block[t]].uri = uri[t]
            /\ heap[block[t]].text = seen[t]
            /\ heap[block[t]].text_len = Len(seen[t])

\* C2 witness: an evicting insert has unlinked the block a reader is streaming
\* and waits in block_free, and the block is still allocated.
C2_Witness ==
    \E t \in Threads, e \in Threads :
        /\ Reading(t) /\ pc[e] = "block_free" /\ rem[e] = block[t]
        /\ heap[block[t]].alloc /\ Len(seen[t]) > 0

\* The positions in the list of the blocks no reader has pinned.
Unpinned == {i \in 1 .. Len(Order) : Pinners(Order[i]) = {}}

\* C3: every eviction removes the least recently used block among those no
\* reader has pinned, whenever the list holds an unpinned block.
C3_EvictsLruUnpinned ==
    [][\A t \in Threads :
          (pc[t] = "ins_room" /\ pc'[t] = "block_free" /\ Unpinned # {}) =>
              \E i \in Unpinned :
                  /\ rem'[t] = Order[i]
                  /\ \A j \in Unpinned : j <= i]_vars

\* C4: the lengths of the blocks in the list never add up to more than
\* MAX_CACHE_SIZE.
C4_SizeBound == SumLen(Order) <= MAX_CACHE_SIZE

\* C4 witness: the list was exactly full and an insert under way has unlinked
\* a block of it to make room.
C4_Witness ==
    \E t \in Threads :
        /\ pc[t] = "block_free"
        /\ heap[rem[t]].text_len > 0
        /\ Len(Order) >= 1
        /\ SumLen(Order) + heap[rem[t]].text_len = MAX_CACHE_SIZE

\* C5: no two blocks of the list have the same uri.
C5_KeysUnique ==
    LET list == Order
    IN  \A i, j \in 1 .. Len(list) :
            i # j => heap[list[i]].uri # heap[list[j]].uri

\* C5 witness: while one thread is still inside cache_gettext, another
\* thread's insert finds the uri already in a list of several blocks.
C5_Witness ==
    \E t \in Threads, r \in Threads :
        /\ pc[t] = "ins_dup" /\ Len(Order) >= 2
        /\ Reading(r)

\* C6: an insert of a uri that is in the cache leaves the text and length
\* stored for that uri, and the cache size, as they were.
C6_FirstWriteWins ==
    [][\A t \in Threads :
          (pc[t] = "ins_dup" \/ pc'[t] = "ins_dup") =>
              LET u == IF pc[t] = "ins_dup" THEN uri[t] ELSE uri'[t]
                  b == cache_findblock(heap, cache, u)
                  c == cache_findblock(heap', cache', u)
              IN  /\ b # NULL /\ c # NULL
                  /\ heap'[c].text = heap[b].text
                  /\ heap'[c].text_len = heap[b].text_len
                  /\ cache'.size = cache.size]_vars

\* C6 witness: the second insert carries a text of another length than the
\* stored one.
C6_Witness ==
    \E t \in Threads :
        /\ pc[t] = "ins_dup"
        /\ Len(text[t]) # heap[block[t]].text_len
        /\ heap[block[t]].text_len > 0

Front(s) == SubSeq(s, 1, Len(s) - 1)

\* C7: an insert evicts only while the new text does not fit, each time the
\* block at the least recently used end, and adds the new block in front as
\* soon as it fits.
C7_EvictionOrder ==
    [][\A t \in Threads :
          /\ (pc[t] = "ins_room" /\ pc'[t] = "block_free") =>
                 /\ needs_room(cache, Len(text[t]))
                 /\ Order # <<>>
                 /\ rem'[t] = Order[Len(Order)]
                 /\ Order' = Front(Order)
          /\ (pc[t] = "ins_room" /\ pc'[t] = "idle") =>
                 /\ ~needs_room(cache, Len(text[t]))
                 /\ Len(Order') = Len(Order) + 1
                 /\ Tail(Order') = Order
                 /\ heap'[Head(Order')].uri = uri[t]
          /\ (pc[t] = "block_free" /\ pc'[t] # "block_free") =>
                 /\ pc'[t] = "ins_room"
                 /\ Order' = Order]_vars

\* C7 witness: with C, B, A in the list, the insert of D has unlinked A, keeps
\* C and B, and D fits now.
C7_Witness ==
    /\ pc[1] = "block_free" /\ uri[1] = "D"
    /\ heap[rem[1]].uri = "A"
    /\ UriOrder = <<"C", "B">>
    /\ ~needs_room(cache, Len(text[1]))

Without(s, b) == SelectSeq(s, LAMBDA x : x # b)

\* C8: a hit moves the hit block to the front of the list and keeps the order
\* of the other blocks.
C8_Promotion ==
    [][\A t \in Threads :
          (pc[t] = "gt_hit" /\ pc'[t] = "gt_write") =>
              Order' = <<block[t]>> \o Without(Order, block[t])]_vars

\* C8 witness: after A was promoted over C and B, the insert of D has
\* unlinked B and keeps A and C.
C8_Witness ==
    /\ pc[1] = "block_free" /\ uri[1] = "D"
    /\ heap[rem[1]].uri = "B"
    /\ UriOrder = <<"A", "C">>
    /\ ~needs_room(cache, Len(text[1]))

\* C9: a lookup that follows the insert of (uri, bytes) hits, finds a block
\* holding exactly those bytes with their length, and a successful write puts
\* exactly those bytes on fd.
C9_RoundTrip ==
    \A t \in Threads :
        (pc[t] \in {"gt_hit", "gt_miss", "gt_write", "gt_unpin"}
         /\ last.uri = uri[t]) =>
            /\ pc[t] # "gt_miss"
            /\ heap[block[t]].text = last.text
            /\ heap[block[t]].text_len = Len(last.text)
            /\ (wres[t] = "ok" => fdout[t] = last.text)

\* C9 witness: the lookup after an insert of MAX_OBJECT_SIZE bytes has
\* written them.
C9_Witness ==
    \E t \in Threads :
        /\ pc[t] = "gt_unpin" /\ wres[t] = "ok" /\ last.uri = uri[t]
        /\ Len(last.text) = MAX_OBJECT_SIZE
        /\ fdout[t] = last.text

\* Every block but b keeps its reference count in this step.
RefsSameBut(b) ==
    \A a \in Addrs : a # b => heap'[a].ref_cont = heap[a].ref_cont

\* C10: a hit adds one to the reference count of the hit block only; the
\* write, failed or not, is followed by the release; the release takes one
\* off that block only and ends the call; a miss changes no reference count.
C10_PinReleasedOnce ==
    [][\A t \in Threads :
          /\ (pc[t] = "gt_hit" /\ pc'[t] # "gt_hit") =>
                 /\ pc'[t] = "gt_write"
                 /\ heap'[block[t]].ref_cont = heap[block[t]].ref_cont + 1
                 /\ RefsSameBut(block[t])
          /\ (pc[t] = "gt_write" /\ pc'[t] # "gt_write") =>
                 /\ pc'[t] = "gt_unpin" /\ block'[t] = block[t]
                 /\ RefsSameBut(NULL)
          /\ (pc[t] = "gt_unpin" /\ pc'[t] # "gt_unpin") =>
                 /\ pc'[t] = "idle"
                 /\ heap'[block[t]].ref_cont = heap[block[t]].ref_cont - 1
                 /\ RefsSameBut(block[t])
          /\ (pc[t] = "gt_miss" \/ pc'[t] = "gt_miss") =>
                 RefsSameBut(NULL)]_vars

\* C10 witness: the write to the client failed and the thread is on its way
\* to the release, the block still pinned.
C10_Witness ==
    \E t \in Threads :
        /\ pc[t] = "gt_unpin" /\ wres[t] = "err"
        /\ heap[block[t]].ref_cont = 2

\* C11: a thread stalled in its socket write of a hit (rio_writen, the mutex
\* released) keeps no other thread from finishing the cache operation it is
\* in: no other thread holds the mutex waiting for the stalled thread's pin.
C11_StalledWriteIsolated ==
    \A t \in Threads, e \in Threads :
        (pc[t] = "gt_write" /\ e # t /\ mutex = e) =>
            ~(pc[e] = "block_free" /\ rem[e] = block[t]
              /\ ~can_free(heap, rem[e]))

\* C12: a thread whose lookup hit and that has written the cached bytes to
\* its client ends the request: when it comes to release its pin it never
\* waits for a mutex whose holder cannot move.
C12_HitEnds ==
    \A t \in Threads :
        (pc[t] = "gt_unpin" /\ mutex \notin {0, t}) =>
            ~(pc[mutex] = "block_free" /\ ~can_free(heap, rem[mutex]))

\* The list holds a block for uri u whose text is r and whose text_len is
\* the length of r.
HasEntry(u, r) ==
    \E i \in 1 .. Len(Order) :
        /\ heap[Order[i]].uri = u
        /\ heap[Order[i]].text = r
        /\ heap[Order[i]].text_len = Len(r)

\* serve returns in this step by its last line, the origin's response read
\* to its end without a read error.
RelayedAll(t) ==
    /\ sv[t].pc # "done" /\ sv'[t].pc = "done"
    /\ sv'[t].exit = "relayed" /\ ~sv'[t].rderr

\* C13: when serve has relayed a complete response of at most
\* MAX_OBJECT_SIZE bytes (MAX_OBJECT_SIZE included), the client got exactly
\* the response and the cache then holds an entry for the URI with those
\* bytes and that length.
C13_PopulateOnMiss ==
    [][\A t \in Handlers :
          (RelayedAll(t) /\ Len(sv'[t].resp) <= MAX_OBJECT_SIZE) =>
              /\ Delivered(sv'[t].cwrites) = sv'[t].resp
              /\ HasEntry(sv[t].uri, sv[t].resp)']_vars

\* C14: serve never writes past cache_input, and when it has relayed a
\* complete response longer than MAX_OBJECT_SIZE the client got every byte
\* of it, serve made no call of cache_insert, and its return left the cache
\* as it was.
C14_Oversized ==
    [][\A t \in Handlers :
          /\ Len(sv'[t].cache_input) <= MAX_OBJECT_SIZE
          /\ (RelayedAll(t) /\ Len(sv'[t].resp) > MAX_OBJECT_SIZE) =>
                 /\ Delivered(sv'[t].cwrites) = sv'[t].resp
                 /\ sv'[t].inserts = 0
                 /\ UNCHANGED <<heap, cache, mutex, pc>>]_vars

\* C14 witness: serve has returned after a complete response longer than
\* MAX_OBJECT_SIZE, all of it on the client socket, and the cache, which is
\* not empty, holds no entry for the URI.
C14_Witness ==
    \E t \in Handlers :
        /\ sv[t].pc = "done" /\ sv[t].exit = "relayed" /\ ~sv[t].rderr
        /\ Len(sv[t].resp) > MAX_OBJECT_SIZE
        /\ Delivered(sv[t].cwrites) = sv[t].resp
        /\ cache.start # NULL
        /\ cache_findblock(heap, cache, sv[t].uri) = NULL

\* C15: a serve whose relay ended because rio_readnb failed, or because a
\* write to the client failed, makes no call of cache_insert.
C15_OnlyCompleteCached ==
    \A t \in Handlers :
        (sv[t].rderr \/ sv[t].exit = "write_err") =>
            /\ sv[t].pc \notin {"insert", "inserting"}
            /\ sv[t].inserts = 0

\* C16: whichever way serve returned, the parser has been freed exactly
\* once, the origin connection, if one was opened, has been closed exactly
\* once, and the client socket is closed.
C16_ResourcesReleased ==
    \A t \in Handlers :
        sv[t].pc = "done" =>
            /\ sv[t].parser = "freed" /\ sv[t].parser_frees = 1
            /\ sv[t].fd_server # "none" =>
                   (sv[t].fd_server = "closed" /\ sv[t].closes = 1)
            /\ sv[t].connfd = "closed"

\* The entries of cwrites that follow entry i.
After(w, i) == SubSeq(w, i + 1, Len(w))

FailedChunk(x) == x.what = "chunk" /\ ~x.ok

\* C17: after a failed write of a relayed chunk serve calls rio_writen on
\* the client socket no more.
C17_NoWriteAfterFailure ==
    \A t \in Handlers :
        \A i \in 1 .. Len(sv[t].cwrites) :
            FailedChunk(sv[t].cwrites[i]) => After(sv[t].cwrites, i) = <<>>

\* C18: when the parser does not take the request line for a request line,
\* the step that parses it first writes the headers of the error page 400
\* "Bad Request" to the client and ends the connection with the client
\* socket closed; the connection has made no cache lookup, no connection to
\* an origin and no cache insert; the cache and the other threads are as they
\* were.
C18_MalformedRequest ==
    [][\A t \in Handlers :
          (sv[t].pc = "parse" /\ sv'[t].line \in ParserStates \ {"REQUEST"}) =>
              /\ sv'[t].pc = "done" /\ sv'[t].connfd = "closed"
              /\ Len(sv'[t].cwrites) >= 1
              /\ Head(sv'[t].cwrites).what = "error_headers"
              /\ Head(sv'[t].cwrites).data = <<"400", "Bad Request">>
              /\ \A i \in 1 .. Len(sv'[t].cwrites) :
                     sv'[t].cwrites[i].what \in {"error_headers", "error_body"}
              /\ sv'[t].lookups = 0 /\ sv'[t].connects = 0 /\ sv'[t].inserts = 0
              /\ UNCHANGED cvars
              /\ \A o \in Handlers \ {t} : sv'[o] = sv[o]]_vars

\* C18 witness: a connection ended on a line that is no request line, the
\* whole error page written, while the cache holds entries and another
\* thread is inside cache_insert.
C18_Witness ==
    \E t \in Handlers :
        /\ sv[t].pc = "done" /\ sv[t].line \in {"HEADER", "ERROR"}
        /\ sv[t].cwrites = <<Wr("error_headers", <<"400", "Bad Request">>, TRUE),
                             Wr("error_body", <<"400", "Bad Request">>, TRUE)>>
        /\ cache.start # NULL
        /\ \E o \in Threads \ {t} : pc[o] \in {"ins_room", "ins_dup", "block_free"}

\* The first place in s where the two bytes of sep stand, 0 if nowhere.
FirstAt(s, sep) ==
    LET M == {i \in 1 .. Len(s) - 1 : SubSeq(s, i, i + 1) = sep}
    IN  IF M = {} THEN 0 ELSE CHOOSE i \in M : \A j \in M : i <= j

\* The lines of a byte stream: what stands before each CR LF, and what is
\* left after the last one.
RECURSIVE SplitLines(_)
SplitLines(s) ==
    LET i == FirstAt(s, "\r\n")
    IN  IF i = 0 THEN <<s>>
        ELSE <<SubSeq(s, 1, i - 1)>> \o SplitLines(SubSeq(s, i + 2, Len(s)))

\* The lines of a request between its request line and its first empty
\* line.
RECURSIVE UpToBlank(_)
UpToBlank(ls) ==
    IF ls = <<>> \/ Head(ls) = "" THEN <<>>
    ELSE <<Head(ls)>> \o UpToBlank(Tail(ls))

\* A header line "name: value" read back as a header.
ReadHeader(l) ==
    LET i == FirstAt(l, ": ")
    IN  IF i = 0 THEN [name |-> l, value |-> ""]
        ELSE [name |-> SubSeq(l, 1, i - 1), value |-> SubSeq(l, i + 2, Len(l))]

\* The headers of the request that write_header put on fd_server.
Forwarded ==
    LET ls == UpToBlank(Tail(SplitLines(wh.out)))
    IN  [i \in 1 .. Len(ls) |-> ReadHeader(ls[i])]

Named(hs, n) == {i \in 1 .. Len(hs) : hs[i].name = n}

FixedNames == {"Host", "User-Agent", "Connection", "Proxy-Connection"}

IsOther(h) == h.name \notin FixedNames

\* C19: the request write_header has forwarded holds exactly one Host
\* header, with a value the client gave for Host if it gave one and
\* host:port if not, exactly one User-Agent header with the fixed value, one
\* "Connection: close" and one "Proxy-Connection: close"; its other headers
\* are the client's headers of other names, each once, unchanged and in the
\* client's order.
C19_Rewriting ==
    (wh.pc = "done" /\ wh.ret = 0) =>
        LET F == Forwarded
            C == wh.headers
        IN  /\ Cardinality(Named(F, "Host")) = 1
            /\ \A i \in Named(F, "Host") :
                   IF Named(C, "Host") = {}
                   THEN F[i].value = request.host \o ":" \o request.port
                   ELSE \E j \in Named(C, "Host") : F[i].value = C[j].value
            /\ Cardinality(Named(F, "User-Agent")) = 1
            /\ \A i \in Named(F, "User-Agent") : F[i].value = header_user_agent
            /\ Cardinality(Named(F, "Connection")) = 1
            /\ \A i \in Named(F, "Connection") : F[i].value = "close"
            /\ Cardinality(Named(F, "Proxy-Connection")) = 1
            /\ \A i \in Named(F, "Proxy-Connection") : F[i].value = "close"
            /\ SelectSeq(F, IsOther) = SelectSeq(C, IsOther)

\* C19 witness: a request went out whose client sent a Host header, a
\* header of another of the four names, and a header of another name
\* after one of them.
C19_Witness ==
    /\ wh.pc = "done" /\ wh.ret = 0
    /\ Named(wh.headers, "Host") # {}
    /\ \E i \in 1 .. Len(wh.headers) :
           wh.headers[i].name \in FixedNames \ {"Host"}
    /\ \E i \in 1 .. Len(wh.headers), j \in 1 .. Len(wh.headers) :
           i < j /\ ~IsOther(wh.headers[i]) /\ IsOther(wh.headers[j])
    /\ Len(Forwarded) = 5

\* C20: a call of cache_free made when no thread holds a pin has returned,
\* with every block of the list freed and no freed block read.
C20_CacheFreeEnds ==
    cf.pc # "none" =>
        /\ cf.pc = "done"
        /\ \A a \in Addrs : ~heap[a].alloc

\* C21: the write that ends the header block puts on fd_server the two
\* bytes CR LF and nothing else, whatever was written before it.
C21_BlankLineOnly ==
    [][(wh.pc = "headers" /\ wh'.pc = "done" /\ wh'.ret = 0) =>
           wh'.out = wh.out \o "\r\n"]_vars

\* C22: whenever the mutex is free, cache->size is the sum of text_len over
\* the blocks of the list (0 when the list is empty).
C22_SizeExact == mutex = 0 => cache.size = SumLen(Order)

\* C22 witness: the mutex is free, the cache is full, and two readers hold
\* two blocks of the list: the block the earlier one hit is no longer at
\* the front, the later one's hit has put its block there.
C22_Witness ==
    /\ mutex = 0 /\ cache.size = MAX_CACHE_SIZE
    /\ \E t \in Threads, r \in Threads :
           /\ pc[t] = "gt_write" /\ block[t] = cache.start
           /\ pc[r] = "gt_write" /\ block[r] # cache.start
           /\ InList(block[r])
           /\ heap[block[t]].text_len > 0 /\ heap[block[r]].text_len > 0

\* C23: whenever the mutex is free, every block of the list has ref_cont
\* equal to 1 plus the number of threads between their hit on it and their
\* release of it; and no ref_cont is ever negative.
C23_RefCount ==
    /\ mutex = 0 =>
           LET list == Order
           IN  \A i \in 1 .. Len(list) :
                   heap[list[i]].ref_cont = 1 + Cardinality(Pinners(list[i]))
    /\ \A a \in Addrs : heap[a].ref_cont >= 0

\* C23 witness: the mutex is free and the list holds a block that every
\* thread has hit and none has released yet (the later hits found it at the
\* front), and behind it a block pinned by none.
C23_Witness ==
    /\ mutex = 0
    /\ \E b \in Addrs :
           /\ InList(b) /\ Pinners(b) = Threads /\ b = cache.start
           /\ heap[b].ref_cont = 1 + NumThreads
    /\ \E b \in Addrs : InList(b) /\ Pinners(b) = {} /\ heap[b].ref_cont = 1

\* C24: whenever the mutex is free, the cache is empty (start NULL, size 0)
\* or its blocks form one ring: following next from start passes through
\* allocated blocks, each once, and comes back to start; b->next->prev = b
\* and b->prev->next = b for each of them; and no block that an insert has
\* unlinked is among them.
C24_WellFormed ==
    mutex = 0 =>
        IF cache.start = NULL THEN cache.size = 0
        ELSE LET list == Order
                 n    == Len(list)
             IN  /\ \A i \in 1 .. n :
                        /\ heap[list[i]].alloc
                        /\ heap[list[i]].next \in Addrs
                        /\ heap[list[i]].prev \in Addrs
                        /\ heap[heap[list[i]].next].prev = list[i]
                        /\ heap[heap[list[i]].prev].next = list[i]
                        /\ \A t \in Threads : rem[t] # list[i]
                 /\ \A i, j \in 1 .. n : i # j => list[i] # list[j]
                 /\ heap[list[n]].next = cache.start

\* C24 witness: the mutex is free and the ring has three blocks or more, the
\* one at the front just hit by a reader, in a full cache.
C24_Witness ==
    /\ mutex = 0 /\ cache.size = MAX_CACHE_SIZE
    /\ Len(Order) >= 3
    /\ \E t \in Threads : pc[t] = "gt_write" /\ block[t] = cache.start
    /\ heap[heap[cache.start].prev].next = cache.start
    /\ heap[cache.start].prev # heap[cache.start].next

====
